---- MODULE Spec2Model ----
(***************************************************************************)
(* Model of snds-show.py: the SNDS CSV viewer.                             *)
(*                                                                         *)
(* A Python str is a sequence of characters (<<"I","P">> is "IP").  A      *)
(* printable ASCII character, tab, newline, carriage return and form feed  *)
(* are written as themselves ("a", "\t", "\n", "\r", "\f"); every other    *)
(* character, and the grave accent, is written as its code point: "U+00C9" *)
(* is LATIN CAPITAL LETTER E WITH ACUTE, "U+0060" the grave accent.  The   *)
(* alphabet is Basic Latin, Latin-1 Supplement, Greek and Coptic and the   *)
(* Unicode white space characters; the case and escape tables below are    *)
(* Python's, restricted to it.                                             *)
(*                                                                         *)
(* Python's None is the one-element sequence None below, whose element is  *)
(* a token that no text contains.  A Python dict is the sequence of its    *)
(* <<key, value>> pairs in insertion order.  A CSV file is the sequence of *)
(* records csv.reader yields for it, each a sequence of fields; a blank    *)
(* line is the record <<>>.                                                *)
(***************************************************************************)
EXTENDS Integers, Sequences, FiniteSets, TLC

VARIABLES pc, args, wanted, stdout, stderr, exit, data_path, rows, cols, guessed,
          ip_path, raw, dict_rows, ipcols

vars == <<pc, args, wanted, stdout, stderr, exit, data_path, rows, cols, guessed,
          ip_path, raw, dict_rows, ipcols>>

-----------------------------------------------------------------------------
(* Bounds of the explored inputs *)

MaxRows == 2
MaxLimit == 1
MaxAvail == 2
MaxWanted == 2

-----------------------------------------------------------------------------
(* Python values and built-ins used by the program *)

None == <<"<None>">>

Unresolved == <<"<unresolved>">>

Range(s) == {s[i] : i \in 1..Len(s)}

Min(a, b) == IF a < b THEN a ELSE b

Max(a, b) == IF a > b THEN a ELSE b

Take(s, n) == SubSeq(s, 1, Min(n, Len(s)))

Drop(s, n) == SubSeq(s, Min(n, Len(s)) + 1, Len(s))

Repeat(c, n) == [i \in 1..n |-> c]

Whitespace ==
    {"\t", "\n", "U+000B", "\f", "\r", "U+001C", "U+001D", "U+001E", "U+001F",
    " ", "U+0085", "U+00A0", "U+1680", "U+2000", "U+2001", "U+2002", "U+2003",
    "U+2004", "U+2005", "U+2006", "U+2007", "U+2008", "U+2009", "U+200A",
    "U+2028", "U+2029", "U+202F", "U+205F", "U+3000"}

LowerPairs ==
    {<<"A", "a">>, <<"B", "b">>, <<"C", "c">>, <<"D", "d">>, <<"E", "e">>,
    <<"F", "f">>, <<"G", "g">>, <<"H", "h">>, <<"I", "i">>, <<"J", "j">>,
    <<"K", "k">>, <<"L", "l">>, <<"M", "m">>, <<"N", "n">>, <<"O", "o">>,
    <<"P", "p">>, <<"Q", "q">>, <<"R", "r">>, <<"S", "s">>, <<"T", "t">>,
    <<"U", "u">>, <<"V", "v">>, <<"W", "w">>, <<"X", "x">>, <<"Y", "y">>,
    <<"Z", "z">>, <<"U+00C0", "U+00E0">>, <<"U+00C1", "U+00E1">>,
    <<"U+00C2", "U+00E2">>, <<"U+00C3", "U+00E3">>, <<"U+00C4", "U+00E4">>,
    <<"U+00C5", "U+00E5">>, <<"U+00C6", "U+00E6">>, <<"U+00C7", "U+00E7">>,
    <<"U+00C8", "U+00E8">>, <<"U+00C9", "U+00E9">>, <<"U+00CA", "U+00EA">>,
    <<"U+00CB", "U+00EB">>, <<"U+00CC", "U+00EC">>, <<"U+00CD", "U+00ED">>,
    <<"U+00CE", "U+00EE">>, <<"U+00CF", "U+00EF">>, <<"U+00D0", "U+00F0">>,
    <<"U+00D1", "U+00F1">>, <<"U+00D2", "U+00F2">>, <<"U+00D3", "U+00F3">>,
    <<"U+00D4", "U+00F4">>, <<"U+00D5", "U+00F5">>, <<"U+00D6", "U+00F6">>,
    <<"U+00D8", "U+00F8">>, <<"U+00D9", "U+00F9">>, <<"U+00DA", "U+00FA">>,
    <<"U+00DB", "U+00FB">>, <<"U+00DC", "U+00FC">>, <<"U+00DD", "U+00FD">>,
    <<"U+00DE", "U+00FE">>, <<"U+0370", "U+0371">>, <<"U+0372", "U+0373">>,
    <<"U+0376", "U+0377">>, <<"U+037F", "U+03F3">>, <<"U+0386", "U+03AC">>,
    <<"U+0388", "U+03AD">>, <<"U+0389", "U+03AE">>, <<"U+038A", "U+03AF">>,
    <<"U+038C", "U+03CC">>, <<"U+038E", "U+03CD">>, <<"U+038F", "U+03CE">>,
    <<"U+0391", "U+03B1">>, <<"U+0392", "U+03B2">>, <<"U+0393", "U+03B3">>,
    <<"U+0394", "U+03B4">>, <<"U+0395", "U+03B5">>, <<"U+0396", "U+03B6">>,
    <<"U+0397", "U+03B7">>, <<"U+0398", "U+03B8">>, <<"U+0399", "U+03B9">>,
    <<"U+039A", "U+03BA">>, <<"U+039B", "U+03BB">>, <<"U+039C", "U+03BC">>,
    <<"U+039D", "U+03BD">>, <<"U+039E", "U+03BE">>, <<"U+039F", "U+03BF">>,
    <<"U+03A0", "U+03C0">>, <<"U+03A1", "U+03C1">>, <<"U+03A4", "U+03C4">>,
    <<"U+03A5", "U+03C5">>, <<"U+03A6", "U+03C6">>, <<"U+03A7", "U+03C7">>,
    <<"U+03A8", "U+03C8">>, <<"U+03A9", "U+03C9">>, <<"U+03AA", "U+03CA">>,
    <<"U+03AB", "U+03CB">>, <<"U+03CF", "U+03D7">>, <<"U+03D8", "U+03D9">>,
    <<"U+03DA", "U+03DB">>, <<"U+03DC", "U+03DD">>, <<"U+03DE", "U+03DF">>,
    <<"U+03E0", "U+03E1">>, <<"U+03E2", "U+03E3">>, <<"U+03E4", "U+03E5">>,
    <<"U+03E6", "U+03E7">>, <<"U+03E8", "U+03E9">>, <<"U+03EA", "U+03EB">>,
    <<"U+03EC", "U+03ED">>, <<"U+03EE", "U+03EF">>, <<"U+03F4", "U+03B8">>,
    <<"U+03F7", "U+03F8">>, <<"U+03F9", "U+03F2">>, <<"U+03FA", "U+03FB">>,
    <<"U+03FD", "U+037B">>, <<"U+03FE", "U+037C">>, <<"U+03FF", "U+037D">>}

UpperToLower ==
    [c \in {p[1] : p \in LowerPairs} |-> (CHOOSE p \in LowerPairs : p[1] = c)[2]]

CaseIgnorable ==
    {"'", ".", ":", "^", "U+0060", "U+00A8", "U+00AD", "U+00AF", "U+00B4", "U+00B7",
    "U+00B8", "U+0374", "U+0375", "U+037A", "U+0384", "U+0385", "U+0387"}

Cased ==
    {"A", "B", "C", "D", "E", "F", "G", "H", "I", "J", "K", "L", "M", "N", "O",
    "P", "Q", "R", "S", "T", "U", "V", "W", "X", "Y", "Z", "a", "b", "c", "d",
    "e", "f", "g", "h", "i", "j", "k", "l", "m", "n", "o", "p", "q", "r", "s",
    "t", "u", "v", "w", "x", "y", "z", "U+00AA", "U+00B5", "U+00BA", "U+00C0",
    "U+00C1", "U+00C2", "U+00C3", "U+00C4", "U+00C5", "U+00C6", "U+00C7",
    "U+00C8", "U+00C9", "U+00CA", "U+00CB", "U+00CC", "U+00CD", "U+00CE",
    "U+00CF", "U+00D0", "U+00D1", "U+00D2", "U+00D3", "U+00D4", "U+00D5",
    "U+00D6", "U+00D8", "U+00D9", "U+00DA", "U+00DB", "U+00DC", "U+00DD",
    "U+00DE", "U+00DF", "U+00E0", "U+00E1", "U+00E2", "U+00E3", "U+00E4",
    "U+00E5", "U+00E6", "U+00E7", "U+00E8", "U+00E9", "U+00EA", "U+00EB",
    "U+00EC", "U+00ED", "U+00EE", "U+00EF", "U+00F0", "U+00F1", "U+00F2",
    "U+00F3", "U+00F4", "U+00F5", "U+00F6", "U+00F8", "U+00F9", "U+00FA",
    "U+00FB", "U+00FC", "U+00FD", "U+00FE", "U+00FF", "U+0370", "U+0371",
    "U+0372", "U+0373", "U+0376", "U+0377", "U+037B", "U+037C", "U+037D",
    "U+037F", "U+0386", "U+0388", "U+0389", "U+038A", "U+038C", "U+038E",
    "U+038F", "U+0390", "U+0391", "U+0392", "U+0393", "U+0394", "U+0395",
    "U+0396", "U+0397", "U+0398", "U+0399", "U+039A", "U+039B", "U+039C",
    "U+039D", "U+039E", "U+039F", "U+03A0", "U+03A1", "U+03A3", "U+03A4",
    "U+03A5", "U+03A6", "U+03A7", "U+03A8", "U+03A9", "U+03AA", "U+03AB",
    "U+03AC", "U+03AD", "U+03AE", "U+03AF", "U+03B0", "U+03B1", "U+03B2",
    "U+03B3", "U+03B4", "U+03B5", "U+03B6", "U+03B7", "U+03B8", "U+03B9",
    "U+03BA", "U+03BB", "U+03BC", "U+03BD", "U+03BE", "U+03BF", "U+03C0",
    "U+03C1", "U+03C2", "U+03C3", "U+03C4", "U+03C5", "U+03C6", "U+03C7",
    "U+03C8", "U+03C9", "U+03CA", "U+03CB", "U+03CC", "U+03CD", "U+03CE",
    "U+03CF", "U+03D0", "U+03D1", "U+03D2", "U+03D3", "U+03D4", "U+03D5",
    "U+03D6", "U+03D7", "U+03D8", "U+03D9", "U+03DA", "U+03DB", "U+03DC",
    "U+03DD", "U+03DE", "U+03DF", "U+03E0", "U+03E1", "U+03E2", "U+03E3",
    "U+03E4", "U+03E5", "U+03E6", "U+03E7", "U+03E8", "U+03E9", "U+03EA",
    "U+03EB", "U+03EC", "U+03ED", "U+03EE", "U+03EF", "U+03F0", "U+03F1",
    "U+03F2", "U+03F3", "U+03F4", "U+03F5", "U+03F7", "U+03F8", "U+03F9",
    "U+03FA", "U+03FB", "U+03FC", "U+03FD", "U+03FE", "U+03FF"}

FinalSigma(s, i) ==
    LET before == {j \in 1..(i - 1) : s[j] \notin CaseIgnorable}
        after  == {j \in (i + 1)..Len(s) : s[j] \notin CaseIgnorable}
    IN  /\ before # {}
        /\ s[CHOOSE j \in before : \A k \in before : k <= j] \in Cased
        /\ \/ after = {}
           \/ s[CHOOSE j \in after : \A k \in after : j <= k] \notin Cased

lower(s) ==
    [i \in 1..Len(s) |->
        IF s[i] = "U+03A3" THEN (IF FinalSigma(s, i) THEN "U+03C2" ELSE "U+03C3")
        ELSE IF s[i] \in DOMAIN UpperToLower THEN UpperToLower[s[i]]
        ELSE s[i]]

ljust(s, w) == IF Len(s) >= w THEN s ELSE s \o Repeat(" ", w - Len(s))

RECURSIVE join(_, _)
join(sep, parts) ==
    IF parts = <<>> THEN <<>>
    ELSE IF Len(parts) = 1 THEN parts[1]
    ELSE parts[1] \o sep \o join(sep, Tail(parts))

RECURSIVE split(_, _)
split(s, c) ==
    IF \A i \in 1..Len(s) : s[i] # c THEN <<s>>
    ELSE LET k == CHOOSE i \in 1..Len(s) :
                      s[i] = c /\ \A j \in 1..(i - 1) : s[j] # c
         IN  <<SubSeq(s, 1, k - 1)>> \o split(SubSeq(s, k + 1, Len(s)), c)

RECURSIVE strip(_)
strip(s) ==
    IF s = <<>> THEN s
    ELSE IF s[1] \in Whitespace THEN strip(Tail(s))
    ELSE IF s[Len(s)] \in Whitespace THEN strip(SubSeq(s, 1, Len(s) - 1))
    ELSE s

ReprEscapes ==
    {<<"U+0000", <<"\\", "x", "0", "0">>>>,
    <<"U+0001", <<"\\", "x", "0", "1">>>>,
    <<"U+0002", <<"\\", "x", "0", "2">>>>,
    <<"U+0003", <<"\\", "x", "0", "3">>>>,
    <<"U+0004", <<"\\", "x", "0", "4">>>>,
    <<"U+0005", <<"\\", "x", "0", "5">>>>,
    <<"U+0006", <<"\\", "x", "0", "6">>>>,
    <<"U+0007", <<"\\", "x", "0", "7">>>>,
    <<"U+0008", <<"\\", "x", "0", "8">>>>,
    <<"U+000B", <<"\\", "x", "0", "b">>>>, <<"\f", <<"\\", "x", "0", "c">>>>,
    <<"U+000E", <<"\\", "x", "0", "e">>>>,
    <<"U+000F", <<"\\", "x", "0", "f">>>>,
    <<"U+0010", <<"\\", "x", "1", "0">>>>,
    <<"U+0011", <<"\\", "x", "1", "1">>>>,
    <<"U+0012", <<"\\", "x", "1", "2">>>>,
    <<"U+0013", <<"\\", "x", "1", "3">>>>,
    <<"U+0014", <<"\\", "x", "1", "4">>>>,
    <<"U+0015", <<"\\", "x", "1", "5">>>>,
    <<"U+0016", <<"\\", "x", "1", "6">>>>,
    <<"U+0017", <<"\\", "x", "1", "7">>>>,
    <<"U+0018", <<"\\", "x", "1", "8">>>>,
    <<"U+0019", <<"\\", "x", "1", "9">>>>,
    <<"U+001A", <<"\\", "x", "1", "a">>>>,
    <<"U+001B", <<"\\", "x", "1", "b">>>>,
    <<"U+001C", <<"\\", "x", "1", "c">>>>,
    <<"U+001D", <<"\\", "x", "1", "d">>>>,
    <<"U+001E", <<"\\", "x", "1", "e">>>>,
    <<"U+001F", <<"\\", "x", "1", "f">>>>,
    <<"U+007F", <<"\\", "x", "7", "f">>>>,
    <<"U+0080", <<"\\", "x", "8", "0">>>>,
    <<"U+0081", <<"\\", "x", "8", "1">>>>,
    <<"U+0082", <<"\\", "x", "8", "2">>>>,
    <<"U+0083", <<"\\", "x", "8", "3">>>>,
    <<"U+0084", <<"\\", "x", "8", "4">>>>,
    <<"U+0085", <<"\\", "x", "8", "5">>>>,
    <<"U+0086", <<"\\", "x", "8", "6">>>>,
    <<"U+0087", <<"\\", "x", "8", "7">>>>,
    <<"U+0088", <<"\\", "x", "8", "8">>>>,
    <<"U+0089", <<"\\", "x", "8", "9">>>>,
    <<"U+008A", <<"\\", "x", "8", "a">>>>,
    <<"U+008B", <<"\\", "x", "8", "b">>>>,
    <<"U+008C", <<"\\", "x", "8", "c">>>>,
    <<"U+008D", <<"\\", "x", "8", "d">>>>,
    <<"U+008E", <<"\\", "x", "8", "e">>>>,
    <<"U+008F", <<"\\", "x", "8", "f">>>>,
    <<"U+0090", <<"\\", "x", "9", "0">>>>,
    <<"U+0091", <<"\\", "x", "9", "1">>>>,
    <<"U+0092", <<"\\", "x", "9", "2">>>>,
    <<"U+0093", <<"\\", "x", "9", "3">>>>,
    <<"U+0094", <<"\\", "x", "9", "4">>>>,
    <<"U+0095", <<"\\", "x", "9", "5">>>>,
    <<"U+0096", <<"\\", "x", "9", "6">>>>,
    <<"U+0097", <<"\\", "x", "9", "7">>>>,
    <<"U+0098", <<"\\", "x", "9", "8">>>>,
    <<"U+0099", <<"\\", "x", "9", "9">>>>,
    <<"U+009A", <<"\\", "x", "9", "a">>>>,
    <<"U+009B", <<"\\", "x", "9", "b">>>>,
    <<"U+009C", <<"\\", "x", "9", "c">>>>,
    <<"U+009D", <<"\\", "x", "9", "d">>>>,
    <<"U+009E", <<"\\", "x", "9", "e">>>>,
    <<"U+009F", <<"\\", "x", "9", "f">>>>,
    <<"U+00A0", <<"\\", "x", "a", "0">>>>,
    <<"U+00AD", <<"\\", "x", "a", "d">>>>,
    <<"U+0378", <<"\\", "u", "0", "3", "7", "8">>>>,
    <<"U+0379", <<"\\", "u", "0", "3", "7", "9">>>>,
    <<"U+0380", <<"\\", "u", "0", "3", "8", "0">>>>,
    <<"U+0381", <<"\\", "u", "0", "3", "8", "1">>>>,
    <<"U+0382", <<"\\", "u", "0", "3", "8", "2">>>>,
    <<"U+0383", <<"\\", "u", "0", "3", "8", "3">>>>,
    <<"U+038B", <<"\\", "u", "0", "3", "8", "b">>>>,
    <<"U+038D", <<"\\", "u", "0", "3", "8", "d">>>>,
    <<"U+03A2", <<"\\", "u", "0", "3", "a", "2">>>>,
    <<"U+1680", <<"\\", "u", "1", "6", "8", "0">>>>,
    <<"U+2000", <<"\\", "u", "2", "0", "0", "0">>>>,
    <<"U+2001", <<"\\", "u", "2", "0", "0", "1">>>>,
    <<"U+2002", <<"\\", "u", "2", "0", "0", "2">>>>,
    <<"U+2003", <<"\\", "u", "2", "0", "0", "3">>>>,
    <<"U+2004", <<"\\", "u", "2", "0", "0", "4">>>>,
    <<"U+2005", <<"\\", "u", "2", "0", "0", "5">>>>,
    <<"U+2006", <<"\\", "u", "2", "0", "0", "6">>>>,
    <<"U+2007", <<"\\", "u", "2", "0", "0", "7">>>>,
    <<"U+2008", <<"\\", "u", "2", "0", "0", "8">>>>,
    <<"U+2009", <<"\\", "u", "2", "0", "0", "9">>>>,
    <<"U+200A", <<"\\", "u", "2", "0", "0", "a">>>>,
    <<"U+2028", <<"\\", "u", "2", "0", "2", "8">>>>,
    <<"U+2029", <<"\\", "u", "2", "0", "2", "9">>>>,
    <<"U+202F", <<"\\", "u", "2", "0", "2", "f">>>>,
    <<"U+205F", <<"\\", "u", "2", "0", "5", "f">>>>,
    <<"U+3000", <<"\\", "u", "3", "0", "0", "0">>>>}

repr_char(c, quote) ==
    IF c = "\\" THEN <<"\\", "\\">>
    ELSE IF c = quote THEN <<"\\", quote>>
    ELSE IF c = "\t" THEN <<"\\", "t">>
    ELSE IF c = "\n" THEN <<"\\", "n">>
    ELSE IF c = "\r" THEN <<"\\", "r">>
    ELSE IF \E p \in ReprEscapes : p[1] = c
    THEN (CHOOSE p \in ReprEscapes : p[1] = c)[2]
    ELSE <<c>>

repr_str(s) ==
    LET quote == IF "'" \in Range(s) /\ "\"" \notin Range(s) THEN "\"" ELSE "'"
    IN  <<quote>> \o join(<<>>, [i \in 1..Len(s) |-> repr_char(s[i], quote)])
        \o <<quote>>

repr_list(l) ==
    <<"[">> \o join(<<",", " ">>, [i \in 1..Len(l) |-> repr_str(l[i])]) \o <<"]">>

PyList(l) == <<"<list>">> \o repr_list(l)

PyStr(v) ==
    IF v = None THEN <<"N", "o", "n", "e">>
    ELSE IF v # <<>> /\ v[1] = "<list>" THEN Tail(v)
    ELSE v

(* dict: insertion-ordered, assignment to an existing key keeps its place *)

Keys(d) == [i \in 1..Len(d) |-> d[i][1]]

HasKey(d, k) == \E i \in 1..Len(d) : d[i][1] = k

DictSet(d, k, v) ==
    IF HasKey(d, k)
    THEN [i \in 1..Len(d) |-> IF d[i][1] = k THEN <<k, v>> ELSE d[i]]
    ELSE Append(d, <<k, v>>)

DictGet(d, k, default) ==
    IF HasKey(d, k)
    THEN d[CHOOSE i \in 1..Len(d) : d[i][1] = k][2]
    ELSE default

RECURSIVE DictFromPairs(_, _)
DictFromPairs(d, pairs) ==
    IF pairs = <<>> THEN d
    ELSE DictFromPairs(DictSet(d, pairs[1][1], pairs[1][2]), Tail(pairs))

zip(a, b) == [i \in 1..Min(Len(a), Len(b)) |-> <<a[i], b[i]>>]

-----------------------------------------------------------------------------
(* find_file: the candidates in order, the first that exists *)

Candidates == <<".csv", ".csv.gz">>

find_file(listing, prefix) ==
    IF \E i \in 1..Len(Candidates) : <<prefix, Candidates[i]>> \in listing
    THEN LET k == CHOOSE i \in 1..Len(Candidates) :
                      /\ <<prefix, Candidates[i]>> \in listing
                      /\ \A j \in 1..(i - 1) : <<prefix, Candidates[j]>> \notin listing
         IN  <<prefix, Candidates[k]>>
    ELSE None

-----------------------------------------------------------------------------
(* csv.DictReader as read_csv_dicts drives it *)

DictReaderRow(fieldnames, row) ==
    LET d  == DictFromPairs(<<>>, zip(fieldnames, row))
        lf == Len(fieldnames)
        lr == Len(row)
    IN  IF lf < lr THEN DictSet(d, None, PyList(Drop(row, lf)))
        ELSE IF lf > lr
        THEN DictFromPairs(d, [i \in 1..(lf - lr) |-> <<fieldnames[lr + i], None>>])
        ELSE d

read_csv_dicts(records) ==
    IF records = <<>> \/ records[1] = <<>> THEN <<>>
    ELSE LET body == SelectSeq(Tail(records), LAMBDA r : r # <<>>)
         IN  [i \in 1..Len(body) |-> DictReaderRow(records[1], body[i])]

read_csv_rows(records) == records

-----------------------------------------------------------------------------
(* tabulate *)

RECURSIVE MaxLen(_, _, _)
MaxLen(col, selected, max_len) ==
    IF selected = <<>> THEN max_len
    ELSE MaxLen(col, Tail(selected),
                Max(max_len, Len(PyStr(DictGet(selected[1], col, <<>>)))))

tab_selected_unguarded(rs, limit) == Take(rs, limit)

tab_selected(rs, limit) == IF limit > 0 THEN Take(rs, limit) ELSE rs

tab_widths_all_rows(rs, columns, limit) ==
    [i \in 1..Len(columns) |-> MaxLen(columns[i], rs, Len(columns[i]))]

tab_widths(rs, columns, limit) ==
    [i \in 1..Len(columns) |->
        MaxLen(columns[i], tab_selected(rs, limit), Len(columns[i]))]

fmt_row(values, widths) ==
    join(<<" ", " ">>, [i \in 1..Len(values) |-> ljust(PyStr(values[i]), widths[i])])

tab_lines(rs, columns, limit) ==
    LET selected == tab_selected(rs, limit)
        widths   == tab_widths(rs, columns, limit)
        header   == fmt_row(columns, widths)
        sep      == fmt_row([i \in 1..Len(widths) |-> Repeat("-", widths[i])], widths)
    IN  <<header, sep>> \o
        [k \in 1..Len(selected) |->
            fmt_row([i \in 1..Len(columns) |-> DictGet(selected[k], columns[i], <<>>)],
                    widths)]

tabulate(rs, columns, limit) == join(<<"\n">>, tab_lines(rs, columns, limit))

-----------------------------------------------------------------------------
(* guess_columns: the selection, or AttributeError when a.lower() is        *)
(* applied to the None key that DictReader gives a row longer than the     *)
(* header                                                                  *)

AttributeError == <<None>>

lower_map(available) ==
    DictFromPairs(<<>>, [i \in 1..Len(available) |-> <<lower(available[i]), available[i]>>])

RECURSIVE guess_loop(_, _, _)
guess_loop(available, ws, result) ==
    IF ws = <<>> THEN result
    ELSE LET w == ws[1]
             a == DictGet(lower_map(available), lower(w), None)
         IN  guess_loop(available, Tail(ws),
                 IF w \in Range(available) THEN Append(result, w)
                 ELSE IF a # None /\ a # <<>> THEN Append(result, a)
                 ELSE result)

guess_columns_untruncated(rs, ws) ==
    IF rs = <<>> THEN <<>>
    ELSE LET available == Keys(rs[1])
         IN  IF None \in Range(available) THEN AttributeError
             ELSE LET result == guess_loop(available, ws, <<>>)
                  IN  IF result = <<>> THEN available ELSE result

guess_columns(rs, ws) ==
    IF rs = <<>> THEN <<>>
    ELSE LET available == Keys(rs[1])
         IN  IF None \in Range(available) THEN AttributeError
             ELSE LET result == guess_loop(available, ws, <<>>)
                  IN  IF result = <<>> THEN Take(available, 8) ELSE result

-----------------------------------------------------------------------------
(* Inputs: command lines and directory contents *)

IP == <<"I", "P">>

DefaultWanted ==
    << <<"I", "P">>, <<"i", "p">>, <<"I", "P", "v", "4">>, <<"i", "p", "v", "4">>,
       <<"D", "a", "t", "e">>, <<"d", "a", "t", "e">>,
       <<"T", "r", "a", "f", "f", "i", "c">>, <<"t", "r", "a", "f", "f", "i", "c">>,
       <<"C", "o", "m", "p", "l", "a", "i", "n", "t", "R", "a", "t", "e">>,
       <<"c", "o", "m", "p", "l", "a", "i", "n", "t", "R", "a", "t", "e">>,
       <<"c", "o", "m", "p", "l", "a", "i", "n", "t", "s">>,
       <<"F", "i", "l", "t", "e", "r", "R", "e", "s", "u", "l", "t">>,
       <<"f", "i", "l", "t", "e", "r", "R", "e", "s", "u", "l", "t">>,
       <<"S", "R", "D">>, <<"s", "r", "d">> >>

SeqsUpTo(S, n) == UNION {[1..k -> S] : k \in 0..n}

NineColumns ==
    << <<"a">>, <<"b">>, <<"c">>, <<"d">>, <<"e">>, <<"f">>, <<"g">>, <<"h">>, <<"i">> >>

Records == {<<>>, << <<"2", "2">> >>, << <<"1">>, <<"2", "2">> >>}

Bodies == SeqsUpTo(Records, MaxRows)

DataHeaders ==
    {<<>>, <<IP>>, << <<"a">>, <<"D", "a", "t", "e">> >>, << <<"a">>, <<"b">> >>}

IpHeaders == {<<>>, << <<"a">>, <<"a">> >>, << <<>> >> \o Tail(NineColumns)}

DataFiles == {<<>>} \cup {<<h>> \o b : h \in DataHeaders, b \in Bodies}

IpFiles == {<<>>} \cup {<<h>> \o b : h \in IpHeaders, b \in Bodies}

Types == {"data", "ipstatus", "both"}

ColumnsArgs == {None, <<>>, <<"\t", "I", "P", " ", ",", "U+00A0", ",", "z", "z", "\n">>}

Limits == 0..MaxLimit

Listings(prefix) == SUBSET {<<prefix, Candidates[i]>> : i \in 1..Len(Candidates)}

Out(sec, kind, name, n, text) ==
    [sec |-> sec, kind |-> kind, name |-> name, n |-> n, text |-> text]

-----------------------------------------------------------------------------
(* main, in the order of its statements; exit = -1 while main is running *)

Init ==
    /\ pc = "start"
    /\ args \in [dir_exists : BOOLEAN, type : Types,
                 columns : ColumnsArgs, limit : Limits]
    /\ wanted = DefaultWanted
    /\ stdout = <<>>
    /\ stderr = <<>>
    /\ exit = -1
    /\ data_path = Unresolved
    /\ ip_path = Unresolved
    /\ rows = <<>>
    /\ cols = <<>>
    /\ guessed = FALSE
    /\ raw = <<>>
    /\ dict_rows = <<>>
    /\ ipcols = <<>>

CheckDir ==
    /\ pc = "start"
    /\ IF ~args.dir_exists
       THEN /\ stderr' = Append(stderr, "ERROR: Data directory not found")
            /\ exit' = 2
            /\ pc' = "done"
       ELSE /\ pc' = "data"
            /\ UNCHANGED <<stderr, exit>>
    /\ UNCHANGED <<args, wanted, stdout, data_path, rows, cols, guessed,
                   ip_path, raw, dict_rows, ipcols>>

parse_columns_keep_empty(s) ==
    [i \in 1..Len(split(s, ",")) |-> strip(split(s, ",")[i])]

parse_columns(s) ==
    LET stripped == [i \in 1..Len(split(s, ",")) |-> strip(split(s, ",")[i])]
    IN  SelectSeq(stripped, LAMBDA c : c # <<>>)

columns_given(c) == c # None /\ c # <<>>

runs_data(type) == type \in {"data", "both"}

runs_ipstatus_only(type) == type = "ipstatus"

runs_ipstatus(type) == type \in {"ipstatus", "both"}

DataSection ==
    /\ pc = "data"
    /\ IF runs_data(args.type)
       THEN \E listing \in Listings("snds-data"), records \in DataFiles :
              LET path == find_file(listing, "snds-data")
                  rs   == read_csv_dicts(records)
                  head == Out("DATA", "header", path, Len(rs), <<>>)
                  cs   == IF columns_given(args.columns)
                          THEN parse_columns(args.columns)
                          ELSE guess_columns(rs, wanted)
              IN  /\ data_path' = path
                  /\ IF path = None
                     THEN /\ stderr' = Append(stderr, "ERROR: Could not find snds-data")
                          /\ pc' = "ipstatus"
                          /\ UNCHANGED <<stdout, exit, rows, cols, guessed>>
                     ELSE IF rs = <<>>
                     THEN /\ stdout' = stdout \o <<head, Out("DATA", "(No rows)", path, 0, <<>>)>>
                          /\ rows' = rs
                          /\ pc' = "ipstatus"
                          /\ UNCHANGED <<stderr, exit, cols, guessed>>
                     ELSE IF cs = AttributeError
                     THEN /\ stdout' = Append(stdout, head)
                          /\ stderr' = Append(stderr, "Traceback: AttributeError")
                          /\ rows' = rs
                          /\ guessed' = TRUE
                          /\ exit' = 1
                          /\ pc' = "done"
                          /\ UNCHANGED cols
                     ELSE /\ stdout' = stdout \o
                               <<head, Out("DATA", "table", path, 0,
                                           tabulate(rs, cs, args.limit))>>
                          /\ rows' = rs
                          /\ cols' = cs
                          /\ guessed' = ~columns_given(args.columns)
                          /\ pc' = "ipstatus"
                          /\ UNCHANGED <<stderr, exit>>
       ELSE /\ pc' = "ipstatus"
            /\ UNCHANGED <<stdout, stderr, exit, data_path, rows, cols, guessed>>
    /\ UNCHANGED <<args, wanted, ip_path, raw, dict_rows, ipcols>>

ip_dict(header, r) ==
    DictFromPairs(<<>>, [i \in 1..Len(header) |->
                            <<header[i], IF i <= Len(r) THEN r[i] ELSE <<>> >>])

IpStatusSection ==
    /\ pc = "ipstatus"
    /\ IF runs_ipstatus(args.type)
       THEN \E listing \in Listings("snds-ipStatus"), records \in IpFiles :
              LET path == find_file(listing, "snds-ipStatus")
                  rw   == read_csv_rows(records)
                  head == Out("IPSTATUS", "header", path, Max(0, Len(rw) - 1), <<>>)
              IN  /\ ip_path' = path
                  /\ IF path = None
                     THEN /\ stderr' = Append(stderr, "ERROR: Could not find snds-ipStatus")
                          /\ UNCHANGED <<stdout, raw, dict_rows, ipcols>>
                     ELSE IF rw = <<>>
                     THEN /\ stdout' = stdout \o
                               <<head, Out("IPSTATUS", "(Empty file)", path, 0, <<>>)>>
                          /\ raw' = rw
                          /\ UNCHANGED <<stderr, dict_rows, ipcols>>
                     ELSE LET header == rw[1]
                              body   == Tail(rw)
                              ds     == [k \in 1..Len(body) |-> ip_dict(header, body[k])]
                              cs     == Take(header, 8)
                          IN  /\ stdout' = stdout \o
                                   <<head, Out("IPSTATUS", "table", path, 0,
                                               tabulate(ds, cs, args.limit))>>
                              /\ raw' = rw
                              /\ dict_rows' = ds
                              /\ ipcols' = cs
                              /\ UNCHANGED stderr
       ELSE UNCHANGED <<stdout, stderr, ip_path, raw, dict_rows, ipcols>>
    /\ exit' = 0
    /\ pc' = "done"
    /\ UNCHANGED <<args, wanted, data_path, rows, cols, guessed>>

Next == CheckDir \/ DataSection \/ IpStatusSection

Spec == Init /\ [][Next]_vars

-----------------------------------------------------------------------------
(* guess_columns on its own, over arbitrary wishlists and column sets *)

GuessNames == {IP, <<"I", "p">>, <<"i", "P">>, <<"a">>, <<"U+00C9", "U+03A3">>}

WantedNames == {IP, <<"i", "p">>, <<"a">>, <<"X">>, <<"U+00E9", "U+03C2">>}

DistinctSeqs(S, n) ==
    {s \in SeqsUpTo(S, n) : s # <<>> /\ \A i, j \in 1..Len(s) : i # j => s[i] # s[j]}

Availables ==
    LET named == DistinctSeqs(GuessNames, MaxAvail) \cup {NineColumns}
    IN  named \cup {Append(s, None) : s \in named}

RowWithKeys(available) ==
    [i \in 1..Len(available) |->
        <<available[i],
          IF available[i] = None THEN PyList(<< <<"1">> >>) ELSE <<"1">> >>]

GuessInit ==
    /\ pc = "call"
    /\ rows \in {<<>>} \cup {<<RowWithKeys(a)>> : a \in Availables}
    /\ wanted \in SeqsUpTo(WantedNames, MaxWanted)
    /\ args = [dir_exists |-> TRUE, type |-> "data", columns |-> None, limit |-> 0]
    /\ stdout = <<>>
    /\ stderr = <<>>
    /\ exit = -1
    /\ data_path = Unresolved
    /\ ip_path = Unresolved
    /\ cols = <<>>
    /\ guessed = FALSE
    /\ raw = <<>>
    /\ dict_rows = <<>>
    /\ ipcols = <<>>

CallGuess ==
    /\ pc = "call"
    /\ LET result == guess_columns(rows, wanted)
       IN  IF result = AttributeError
           THEN /\ pc' = "raised"
                /\ UNCHANGED cols
           ELSE /\ pc' = "returned"
                /\ cols' = result
    /\ guessed' = TRUE
    /\ UNCHANGED <<args, wanted, stdout, stderr, exit, data_path, rows,
                   ip_path, raw, dict_rows, ipcols>>

GuessNext == CallGuess

GuessSpec == GuessInit /\ [][GuessNext]_vars

-----------------------------------------------------------------------------
(* Reading the output back, without the program's formatting code *)

OutOf(sec, kind) == SelectSeq(stdout, LAMBDA e : e.sec = sec /\ e.kind = kind)

Printed(sec, kind) == OutOf(sec, kind) # <<>>

Pieces(text, c) ==
    LET P    == {i \in 1..Len(text) : text[i] = c}
        B(m) == IF m = 0 THEN 0
                ELSE IF m > Cardinality(P) THEN Len(text) + 1
                ELSE CHOOSE i \in P : Cardinality({j \in P : j <= i}) = m
    IN  [m \in 1..(Cardinality(P) + 1) |-> SubSeq(text, B(m - 1) + 1, B(m) - 1)]

TableLines(sec) == Pieces(OutOf(sec, "table")[1].text, "\n")

RowLines(sec) == Tail(Tail(TableLines(sec)))

RECURSIVE DashRuns(_)
DashRuns(line) ==
    LET k == Cardinality({i \in 1..Len(line) : \A j \in 1..i : line[j] = "-"})
    IN  IF Len(line) = k THEN <<k>>
        ELSE <<k>> \o DashRuns(SubSeq(line, k + 3, Len(line)))

ShownWidths(sec, n) == IF n = 0 THEN <<>> ELSE DashRuns(TableLines(sec)[2])

RECURSIVE Offset(_, _)
Offset(W, k) == IF k = 1 THEN 0 ELSE Offset(W, k - 1) + W[k - 1] + 2

Cell(line, W, k) == SubSeq(line, Offset(W, k) + 1, Offset(W, k) + W[k])

Blank(cell) == \A p \in 1..Len(cell) : cell[p] = " "

Shows(cell, text) ==
    /\ Len(text) <= Len(cell)
    /\ \A p \in 1..Len(cell) : cell[p] = (IF p <= Len(text) THEN text[p] ELSE " ")

Trimmed(s) ==
    LET solid == {i \in 1..Len(s) : s[i] \notin Whitespace}
    IN  IF solid = {} THEN <<>>
        ELSE SubSeq(s, CHOOSE i \in solid : \A j \in solid : i <= j,
                       CHOOSE i \in solid : \A j \in solid : i >= j)

NoDuplicates(s) == \A i, j \in 1..Len(s) : i # j => s[i] # s[j]

SameFold(a, w) == lower(a) = lower(w)

Matches(available, w) == \E i \in 1..Len(available) : SameFold(available[i], w)

-----------------------------------------------------------------------------
(* C1 *)

DataAbsentCellsBlank ==
    Printed("DATA", "table") =>
        LET W == ShownWidths("DATA", Len(cols))
            L == RowLines("DATA")
        IN  \A i \in 1..Len(L) : \A k \in 1..Len(cols) :
                DictGet(rows[i], cols[k], None) = None => Blank(Cell(L[i], W, k))

IpAbsentCellsBlank ==
    Printed("IPSTATUS", "table") =>
        LET W == ShownWidths("IPSTATUS", Len(ipcols))
            L == RowLines("IPSTATUS")
        IN  \A i \in 1..Len(L) : \A k \in 1..Len(ipcols) :
                k > Len(raw[i + 1]) => Blank(Cell(L[i], W, k))

\* C1: whatever the number of fields of the data rows, the run ends without an
\* exception and every field a row lacks is shown as a cell of spaces only,
\* in the data table and in the ipstatus table.
C1_RaggedRowsTolerated ==
    /\ exit # 1
    /\ DataAbsentCellsBlank
    /\ IpAbsentCellsBlank

-----------------------------------------------------------------------------
(* C2 *)

FirstFold(available, w) ==
    available[CHOOSE i \in 1..Len(available) :
                  /\ SameFold(available[i], w)
                  /\ \A j \in 1..(i - 1) : ~SameFold(available[j], w)]

RECURSIVE ClaimedSelection(_, _)
ClaimedSelection(available, ws) ==
    IF ws = <<>> THEN <<>>
    ELSE (IF ws[1] \in Range(available) THEN <<ws[1]>>
          ELSE IF Matches(available, ws[1]) THEN <<FirstFold(available, ws[1])>>
          ELSE <<>>)
         \o ClaimedSelection(available, Tail(ws))

\* C2: for non-empty rows guess_columns appends, for each wishlist entry in
\* order, the entry itself when a column has exactly that name, otherwise the
\* first column of the data equal to it ignoring case, otherwise nothing.
C2_FirstCaseInsensitiveColumn ==
    (pc = "returned" /\ rows # <<>>) =>
        LET sel == ClaimedSelection(Keys(rows[1]), wanted)
        IN  sel # <<>> => cols = sel

-----------------------------------------------------------------------------
(* C3 *)

MatchingEntries(available, ws) == {i \in 1..Len(ws) : Matches(available, ws[i])}

\* C3: when guess_columns returns for non-empty rows, the selection is the
\* first min(8, n) of the n columns exactly when no wishlist entry matches a
\* column, holds one name per matching entry otherwise, and is never empty.
C3_FallbackFirstEight ==
    (pc = "returned" /\ rows # <<>>) =>
        LET available == Keys(rows[1])
            n         == Len(available)
            hits      == MatchingEntries(available, wanted)
        IN  /\ cols # <<>>
            /\ hits = {} =>
                 /\ Len(cols) = (IF n < 8 THEN n ELSE 8)
                 /\ \A k \in 1..Len(cols) : cols[k] = available[k]
            /\ hits # {} =>
                 /\ Len(cols) = Cardinality(hits)
                 /\ \A k \in 1..Len(cols) : Matches(wanted, cols[k])

C3_Witness ==
    /\ pc = "returned"
    /\ rows # <<>>
    /\ Len(rows[1]) > 8
    /\ wanted # <<>>
    /\ MatchingEntries(Keys(rows[1]), wanted) = {}
    /\ Len(cols) = 8

-----------------------------------------------------------------------------
(* C4 *)

ClaimedColumns(s) ==
    LET entries == [m \in 1..Len(Pieces(s, ",")) |-> Trimmed(Pieces(s, ",")[m])]
    IN  SelectSeq(entries, LAMBDA e : Len(e) > 0)

ColumnsOverride ==
    LET want == ClaimedColumns(args.columns)
        T    == TableLines("DATA")
        W    == ShownWidths("DATA", Len(want))
    IN  /\ ~guessed
        /\ cols = want
        /\ Len(W) = Len(want)
        /\ \A k \in 1..Len(want) : Shows(Cell(T[1], W, k), want[k])
        /\ want = <<>> => T[1] = <<>>
        /\ \A k \in 1..Len(want) :
              (want[k] \notin Range(Keys(rows[1]))) =>
                  \A i \in 3..Len(T) : Blank(Cell(T[i], W, k))

\* C4 as stated: whenever --columns is supplied, the data table shows exactly
\* its trimmed non-empty entries in order, guess_columns is not consulted, and
\* a name the data lacks is a blank cell in every row.
C4_ColumnsAlwaysOverride ==
    (args.columns # None /\ Printed("DATA", "table")) => ColumnsOverride

\* C4 amended: the same, whenever --columns is supplied with a non-empty
\* string; an empty --columns value is treated as not supplied.
C4_NonEmptyColumnsOverride ==
    (args.columns # None /\ args.columns # <<>> /\ Printed("DATA", "table"))
        => ColumnsOverride

C4_Witness ==
    /\ args.columns # None
    /\ args.columns # <<>>
    /\ Printed("DATA", "table")
    /\ Len(TableLines("DATA")) > 2
    /\ \E k \in 1..Len(cols) : cols[k] \notin Range(Keys(rows[1]))
    /\ \E k \in 1..Len(cols) : cols[k] \in Range(Keys(rows[1]))
    /\ Len(args.columns) > Len(join(<<",">>, cols))

-----------------------------------------------------------------------------
(* C5 *)

\* C5: a finished run has exit status 2 exactly when the data directory does
\* not exist, and then it has printed nothing on standard output and resolved
\* no file; every other finished run has exit status 0.
C5_ExitStatus ==
    pc = "done" =>
        /\ exit = 2 <=> ~args.dir_exists
        /\ ~args.dir_exists =>
             stdout = <<>> /\ data_path = Unresolved /\ ip_path = Unresolved
        /\ args.dir_exists => exit = 0

-----------------------------------------------------------------------------
(* C6 *)

NoOutputOf(sec) == \A i \in 1..Len(stdout) : stdout[i].sec # sec

SectionsIndependent ==
    /\ (data_path = None) <=> ("ERROR: Could not find snds-data" \in Range(stderr))
    /\ (ip_path = None) <=> ("ERROR: Could not find snds-ipStatus" \in Range(stderr))
    /\ data_path = None => NoOutputOf("DATA")
    /\ ip_path = None => NoOutputOf("IPSTATUS")
    /\ \A i, j \in 1..Len(stdout) :
          (stdout[i].sec = "IPSTATUS" /\ stdout[j].sec = "DATA") => j < i
    /\ (pc = "done" /\ args.type = "both" /\ data_path = None) =>
          /\ ip_path # Unresolved
          /\ ip_path # None =>
               /\ Printed("IPSTATUS", "header")
               /\ Printed("IPSTATUS", "table") \/ Printed("IPSTATUS", "(Empty file)")
    /\ args.type = "data" => ip_path = Unresolved /\ NoOutputOf("IPSTATUS")
    /\ args.type = "ipstatus" => data_path = Unresolved /\ NoOutputOf("DATA")

DataSectionKept ==
    pc = "ipstatus" =>
        /\ Len(stdout') >= Len(stdout)
        /\ SubSeq(stdout', 1, Len(stdout)) = stdout
        /\ ip_path' = None => stdout' = stdout

\* C6: with --type both a missing data file gives an error on standard error,
\* no DATA output, and the ipstatus file is still resolved and rendered after
\* it; the ipstatus step never changes the DATA output already printed; with
\* --type data or ipstatus the other category is neither resolved nor printed.
C6_Independent == []SectionsIndependent /\ [][DataSectionKept]_vars

C6_Witness ==
    /\ pc = "done"
    /\ args.type = "both"
    /\ data_path = None
    /\ Printed("IPSTATUS", "table")
    /\ Len(TableLines("IPSTATUS")) > 2

-----------------------------------------------------------------------------
(* C7 *)

ParsedCount(sec) ==
    IF sec = "DATA" THEN Len(rows)
    ELSE IF raw = <<>> THEN 0 ELSE Len(raw) - 1

ShownCount(sec) ==
    IF args.limit = 0 \/ args.limit > ParsedCount(sec)
    THEN ParsedCount(sec) ELSE args.limit

RowCounts(sec, tabulated, columns) ==
    /\ Printed(sec, "header") => OutOf(sec, "header")[1].n = ParsedCount(sec)
    /\ Printed(sec, "table") =>
         LET L == RowLines(sec)
             W == ShownWidths(sec, Len(columns))
         IN  /\ Len(L) = ShownCount(sec)
             /\ \A i \in 1..Len(L) : \A k \in 1..Len(columns) :
                   Shows(Cell(L[i], W, k),
                         PyStr(DictGet(tabulated[i], columns[k], <<>>)))

\* C7: the count in a section header is the number of data rows parsed (header
\* row excluded, 0 for an empty file) whatever --limit is, and the table below
\* it has all of them for --limit 0 and the first min(limit, N), in file
\* order, for a positive --limit.
C7_RowCountAndLimit ==
    /\ RowCounts("DATA", rows, cols)
    /\ RowCounts("IPSTATUS", dict_rows, ipcols)

C7_Witness ==
    /\ Printed("DATA", "table")
    /\ args.limit > 0
    /\ Len(rows) > args.limit
    /\ OutOf("DATA", "header")[1].n = Len(rows)
    /\ Len(RowLines("DATA")) = args.limit
    /\ rows[1] # rows[Len(rows)]

-----------------------------------------------------------------------------
(* C8 *)

SetMax(S) == CHOOSE m \in S : \A x \in S : x <= m

ClaimedWidth(tabulated, col, shown) ==
    SetMax({Len(col)} \cup
           {Len(PyStr(DictGet(tabulated[i], col, <<>>))) : i \in 1..shown})

LineIs(line, texts, W) ==
    /\ Len(line) = (IF W = <<>> THEN 0 ELSE Offset(W, Len(W)) + W[Len(W)])
    /\ \A k \in 1..Len(W) : Shows(Cell(line, W, k), texts[k])
    /\ \A k \in 1..(Len(W) - 1) :
          /\ line[Offset(W, k) + W[k] + 1] = " "
          /\ line[Offset(W, k) + W[k] + 2] = " "

TableLayout(sec, tabulated, columns) ==
    Printed(sec, "table") =>
        LET T     == TableLines(sec)
            shown == IF args.limit > 0 /\ args.limit < Len(tabulated)
                     THEN args.limit ELSE Len(tabulated)
            W     == [k \in 1..Len(columns) |->
                         ClaimedWidth(tabulated, columns[k], shown)]
        IN  /\ Len(T) = 2 + shown
            /\ LineIs(T[1], columns, W)
            /\ LineIs(T[2], [k \in 1..Len(W) |-> Repeat("-", W[k])], W)
            /\ \A k \in 1..Len(W) : Len(Cell(T[2], W, k)) = W[k]
            /\ \A i \in 1..shown :
                  LineIs(T[2 + i],
                         [k \in 1..Len(columns) |->
                             PyStr(DictGet(tabulated[i], columns[k], <<>>))], W)
            /\ \A i, j \in 1..Len(T) : Len(T[i]) = Len(T[j])

\* C8: a table is a header line, a line of dashes and one line per shown row;
\* a column is as wide as the longest of its name and its values in the shown
\* rows only; cells are left-justified, space-padded to that width and joined
\* by two spaces, so all lines are equally long and no cell exceeds its width.
C8_TableLayout ==
    /\ TableLayout("DATA", rows, cols)
    /\ TableLayout("IPSTATUS", dict_rows, ipcols)

C8_Witness ==
    /\ Printed("DATA", "table")
    /\ args.limit > 0
    /\ Len(rows) > args.limit
    /\ \E k \in 1..Len(cols) : \E i \in (args.limit + 1)..Len(rows) :
          Len(PyStr(DictGet(rows[i], cols[k], <<>>)))
              > ShownWidths("DATA", Len(cols))[k]

-----------------------------------------------------------------------------
(* C9 *)

\* C9: the ipstatus table shows the first min(8, n) fields of the raw header
\* row in order, and the cell of a shown row in displayed position j is that
\* row's raw field j, or empty when the row has no field j, whatever the
\* header names are.
C9_PositionalColumns ==
    Printed("IPSTATUS", "table") =>
        LET header == raw[1]
            n      == IF Len(header) < 8 THEN Len(header) ELSE 8
            T      == TableLines("IPSTATUS")
            W      == ShownWidths("IPSTATUS", n)
        IN  /\ Len(W) = n
            /\ \A k \in 1..n : Shows(Cell(T[1], W, k), header[k])
            /\ \A i \in 3..Len(T) : \A k \in 1..n :
                  Shows(Cell(T[i], W, k),
                        IF k <= Len(raw[i - 1]) THEN raw[i - 1][k] ELSE <<>>)

-----------------------------------------------------------------------------
(* C10 *)

\* C10: a guessed selection holds no column name twice and only names that
\* are columns of the data.
C10_NoRepeatedColumn ==
    (guessed /\ Printed("DATA", "table")) =>
        /\ NoDuplicates(cols)
        /\ Range(cols) \subseteq Range(Keys(rows[1]))

====
